---------------------------- MODULE Spec2Model ----------------------------
(***************************************************************************)
(* A model of shellyln/go-small-jsonpath (src/jsonpath/jsonpath.go):       *)
(* the path compiler (Compile / compileCore and its scanner primitives)    *)
(* and the query evaluator (Query and the two zero-value accessors).       *)
(*                                                                         *)
(* A path is the []rune of the source string: a sequence of code points.   *)
(* Positions are Go's 0-based positions; At and Slice translate them.      *)
(* A Go string (a name, a string value) is the sequence of its code        *)
(* points.  A decoded JSON value (interface{}) is a record                 *)
(*   [kind, num, str, items, fields]                                       *)
(* whose kind is the dynamic Go type: "nil", "float64", "string", "slice"  *)
(* ([]interface{}), "map" (map[string]interface{}) or "int".               *)
(***************************************************************************)
EXTENDS Integers, Sequences, FiniteSets, TLC

VARIABLES parts,   \* the path text being written, as a sequence of tokens
          src,     \* the []rune handed to the last Compile
          cp,      \* the outcome of the last Compile
          pjson,   \* the *parsedJSON the queries run against
          out      \* the outcome of the last Query / accessor call

vars == <<parts, src, cp, pjson, out>>

----------------------------------------------------------------------------
(* Bounds of the model. *)

\* selector segments after the root marker, query specification
MaxSteps == 3
\* selector segments after the root marker, whitespace specification
MaxSegs == 1
\* whitespace characters inserted into one path
MaxSpaces == 2
\* escape / literal pieces inside one quoted name
MaxPieces == 2

----------------------------------------------------------------------------
(* Characters the code names. *)

ChRoot == 36
ChDot == 46
ChLBracket == 91
ChRBracket == 93
ChLParen == 40
ChRParen == 41
ChSQuote == 39
ChDQuote == 34
ChBackslash == 92
ChBacktick == 96
ChMinus == 45
ChPlus == 43
ChLBrace == 123
ChRBrace == 125
ChZero == 48
ChNine == 57

\* Go's src[i]
At(s, i) == s[i + 1]

\* Go's src[a:b]
Slice(s, a, b) == SubSeq(s, a + 1, b)

\* unicode.IsSpace: the White_Space code points
IsSpace(ch) ==
    \/ ch \in {9, 10, 11, 12, 13, 32, 133, 160, 5760, 8232, 8233, 8239, 8287, 12288}
    \/ (8192 <= ch /\ ch <= 8202)

\* unicode.IsControl: category Cc
IsControl(ch) == (0 <= ch /\ ch <= 31) \/ (127 <= ch /\ ch <= 159)

IsDigit(ch) == ChZero <= ch /\ ch <= ChNine

\* the test of parseHex: 0-9, A-F, a-f
IsHexDigit(ch) ==
    \/ (ChZero <= ch /\ ch <= ChNine)
    \/ (65 <= ch /\ ch <= 70)
    \/ (97 <= ch /\ ch <= 102)

\* the test of parseBareName: the ASCII punctuation that ends a bare name
IsBareNameStop(ch) ==
    \/ (33 <= ch /\ ch <= 47)
    \/ (58 <= ch /\ ch <= 64)
    \/ (ChLBracket <= ch /\ ch <= ChBacktick)
    \/ (ChLBrace <= ch /\ ch <= 126)

----------------------------------------------------------------------------
(* Scanner primitives. *)

RECURSIVE skipAsciiSpaces(_, _)
\* a faulty variant of skipSpaces: only the ASCII space is skipped
skipAsciiSpaces(s, start) ==
    IF start < Len(s)
    THEN IF At(s, start) # 32 THEN start ELSE skipAsciiSpaces(s, start + 1)
    ELSE Len(s)

\* skipSpaces: the first position at or after start that holds neither a
\* space nor a control character, or the length.  Its error is always nil.
RECURSIVE skipSpaces(_, _)
skipSpaces(s, start) ==
    IF start < Len(s)
    THEN IF ~IsSpace(At(s, start)) /\ ~IsControl(At(s, start))
         THEN start
         ELSE skipSpaces(s, start + 1)
    ELSE Len(s)

RECURSIVE bareNameEnd(_, _)
bareNameEnd(s, i) ==
    IF i < Len(s)
    THEN LET ch == At(s, i)
         IN  IF IsSpace(ch) \/ IsControl(ch) \/ IsBareNameStop(ch)
             THEN i
             ELSE bareNameEnd(s, i + 1)
    ELSE i

\* parseBareName: (name, end, err)
parseBareName(s, start) ==
    LET i == bareNameEnd(s, start)
    IN  IF i = start
        THEN [name |-> <<>>, end |-> start, err |-> TRUE]
        ELSE [name |-> Slice(s, start, i), end |-> i, err |-> FALSE]

RECURSIVE numberEnd(_, _)
numberEnd(s, i) ==
    IF i < Len(s)
    THEN LET ch == At(s, i)
         IN  IF i = 0 /\ ch = ChMinus
             THEN numberEnd(s, i + 1)
             ELSE IF IsDigit(ch) THEN numberEnd(s, i + 1) ELSE i
    ELSE i

\* parseNumber: (end, err)
parseNumber(s, start) ==
    LET i == numberEnd(s, start)
    IN  IF i = start
        THEN [end |-> start, err |-> TRUE]
        ELSE [end |-> i, err |-> FALSE]

RECURSIVE hexEnd(_, _)
hexEnd(s, i) ==
    IF i < Len(s)
    THEN IF IsHexDigit(At(s, i)) THEN hexEnd(s, i + 1) ELSE i
    ELSE i

\* parseHex: (end, err)
parseHex(s, start) ==
    LET i == hexEnd(s, start)
    IN  IF i = start
        THEN [end |-> start, err |-> TRUE]
        ELSE [end |-> i, err |-> FALSE]

----------------------------------------------------------------------------
(* strconv.ParseInt(s, base, 64) for base 10 and 16. *)

\* the value of a digit in the base, or -1
DigitValue(ch, base) ==
    LET v == IF ChZero <= ch /\ ch <= ChNine THEN ch - ChZero
             ELSE IF 97 <= ch /\ ch <= 122 THEN ch - 97 + 10
             ELSE IF 65 <= ch /\ ch <= 90 THEN ch - 65 + 10
             ELSE -1
    IN  IF v >= 0 /\ v < base THEN v ELSE -1

RECURSIVE digitsValue(_, _, _)
\* the value of a run of digits, or -1 when a character is no digit
digitsValue(s, base, acc) ==
    IF s = <<>> THEN acc
    ELSE LET d == DigitValue(Head(s), base)
         IN  IF d < 0 THEN -1 ELSE digitsValue(Tail(s), base, acc * base + d)

\* ParseInt: an optional sign, then one or more digits of the base.  The
\* texts of this model hold at most six digits, so ParseInt's range error
\* (a value outside 64 bits) never arises and is not modelled.
ParseInt(s, base) ==
    LET signed == s # <<>> /\ Head(s) \in {ChPlus, ChMinus}
        neg    == s # <<>> /\ Head(s) = ChMinus
        digits == IF signed THEN Tail(s) ELSE s
        v      == IF digits = <<>> THEN -1 ELSE digitsValue(digits, base, 0)
    IN  IF v < 0
        THEN [v |-> 0, err |-> TRUE]
        ELSE [v |-> IF neg THEN 0 - v ELSE v, err |-> FALSE]

\* string([]rune{r}): a rune that is no valid code point becomes U+FFFD
RuneInString(r) ==
    IF r < 0 \/ r > 1114111 \/ (55296 <= r /\ r <= 57343) THEN 65533 ELSE r

----------------------------------------------------------------------------
(* parseQuotedName: (name, end, err).  The name is string(buf). *)

QuotedNameError(start) == [name |-> <<>>, end |-> start, err |-> TRUE]

GoString(buf) == [k \in 1..Len(buf) |-> RuneInString(buf[k])]

RECURSIVE quotedNameLoop(_, _, _, _, _)
\* a faulty variant of hexByteEscape: the scan resumes one character early
hexByteEscapeShort(s, cc, start, i, buf) ==
    IF i + 3 >= Len(s) THEN QuotedNameError(start)
    ELSE LET p == ParseInt(Slice(s, i + 2, i + 4), 16)
         IN  IF p.err THEN QuotedNameError(start)
             ELSE quotedNameLoop(s, cc, start, i + 3, Append(buf, p.v))

\* the \xHH branch: the two characters after the x go to ParseInt as they are
hexByteEscape(s, cc, start, i, buf) ==
    IF i + 3 >= Len(s) THEN QuotedNameError(start)
    ELSE LET p == ParseInt(Slice(s, i + 2, i + 4), 16)
         IN  IF p.err THEN QuotedNameError(start)
             ELSE quotedNameLoop(s, cc, start, i + 4, Append(buf, p.v))

\* the \u{H...H} branch
bracedUnicodeEscape(s, cc, start, i, buf) ==
    LET h == parseHex(s, i + 3)
    IN  IF h.err THEN QuotedNameError(start)
        ELSE IF h.end > i + 9 THEN QuotedNameError(start)
        ELSE LET p == ParseInt(Slice(s, i + 3, h.end), 16)
             IN  IF p.err THEN QuotedNameError(start)
                 ELSE IF h.end >= Len(s) THEN QuotedNameError(start)
                 ELSE IF At(s, h.end) # ChRBrace THEN QuotedNameError(start)
                 ELSE quotedNameLoop(s, cc, start, h.end + 1, Append(buf, p.v))

\* the \uHHHH branch: the run of hex digits after the u must end at i+6
fourDigitUnicodeEscape(s, cc, start, i, buf) ==
    IF i + 5 >= Len(s) THEN QuotedNameError(start)
    ELSE LET h == parseHex(s, i + 2)
         IN  IF h.err THEN QuotedNameError(start)
             ELSE IF h.end # i + 6 THEN QuotedNameError(start)
             ELSE LET p == ParseInt(Slice(s, i + 2, h.end), 16)
                  IN  IF p.err THEN QuotedNameError(start)
                      ELSE quotedNameLoop(s, cc, start, h.end, Append(buf, p.v))

unicodeEscape(s, cc, start, i, buf) ==
    IF i + 2 >= Len(s) THEN QuotedNameError(start)
    ELSE IF At(s, i + 2) = ChLBrace
         THEN bracedUnicodeEscape(s, cc, start, i, buf)
         ELSE fourDigitUnicodeEscape(s, cc, start, i, buf)

\* the switch on the character after a backslash; it has no default case,
\* so after any other character the loop just moves on to that character
backslashEscape(s, cc, start, i, buf) ==
    LET e == At(s, i + 1)
    IN  CASE e \in {ChBackslash, ChDQuote, ChSQuote, ChBacktick} ->
                quotedNameLoop(s, cc, start, i + 2, Append(buf, e))
          [] e \in {110, 78} -> quotedNameLoop(s, cc, start, i + 2, Append(buf, 10))
          [] e \in {114, 82} -> quotedNameLoop(s, cc, start, i + 2, Append(buf, 13))
          [] e \in {118, 86} -> quotedNameLoop(s, cc, start, i + 2, Append(buf, 11))
          [] e \in {116, 84} -> quotedNameLoop(s, cc, start, i + 2, Append(buf, 9))
          [] e \in {98, 66}  -> quotedNameLoop(s, cc, start, i + 2, Append(buf, 8))
          [] e \in {102, 70} -> quotedNameLoop(s, cc, start, i + 2, Append(buf, 12))
          [] e \in {120, 88} -> hexByteEscape(s, cc, start, i, buf)
          [] e \in {117, 85} -> unicodeEscape(s, cc, start, i, buf)
          [] OTHER -> quotedNameLoop(s, cc, start, i + 1, buf)

quotedNameLoop(s, cc, start, i, buf) ==
    IF i >= Len(s) THEN QuotedNameError(start)
    ELSE LET ch == At(s, i)
         IN  IF ch = cc
             THEN [name |-> GoString(buf), end |-> i + 1, err |-> FALSE]
             ELSE IF ch = ChBackslash
             THEN IF i + 1 = Len(s)
                  THEN QuotedNameError(start)
                  ELSE backslashEscape(s, cc, start, i, buf)
             ELSE quotedNameLoop(s, cc, start, i + 1, Append(buf, ch))

parseQuotedName(s, cc, start) == quotedNameLoop(s, cc, start, start, <<>>)

----------------------------------------------------------------------------
(* Compile / compileCore.  The outcome is [kind, asts]: "ok" with the      *)
(* steps, "err" (a returned error, no CompiledJSONPath) or "panic" (a Go   *)
(* run-time panic: an index out of range).                                 *)

NameIndexer(name) == [typ |-> "NameIndexer", name |-> name, index |-> 0]
NumberIndexer(index) == [typ |-> "NumberIndexer", name |-> <<>>, index |-> index]
FunctionOperand(name) == [typ |-> "Function", name |-> name, index |-> 0]

CompileError == [kind |-> "err", asts |-> <<>>]
CompilePanic == [kind |-> "panic", asts |-> <<>>]

RECURSIVE compileLoop(_, _, _)
\* case '[': a number indexer or a quoted name, then the closing bracket
compileBracket(s, i, asts) ==
    LET start == skipSpaces(s, i + 1)
    IN  IF start = Len(s) THEN CompileError
        ELSE LET ch2 == At(s, start)
                 num == parseNumber(s, start)
                 int == ParseInt(Slice(s, start, num.end), 10)
                 qn  == parseQuotedName(s, ch2, start + 1)
                 operand ==
                     IF IsDigit(ch2) \/ ch2 = ChMinus
                     THEN IF num.err \/ int.err
                          THEN [err |-> TRUE, end |-> start, ast |-> NumberIndexer(0)]
                          ELSE [err |-> FALSE, end |-> num.end, ast |-> NumberIndexer(int.v)]
                     ELSE IF ch2 \in {ChSQuote, ChDQuote}
                          THEN IF qn.err
                               THEN [err |-> TRUE, end |-> start, ast |-> NameIndexer(<<>>)]
                               ELSE [err |-> FALSE, end |-> qn.end, ast |-> NameIndexer(qn.name)]
                          ELSE [err |-> TRUE, end |-> start, ast |-> NameIndexer(<<>>)]
                 end == skipSpaces(s, operand.end)
             IN  IF operand.err THEN CompileError
                 ELSE IF end = Len(s) THEN CompileError
                 ELSE IF At(s, end) # ChRBracket THEN CompileError
                 ELSE compileLoop(s, end + 1, Append(asts, operand.ast))

\* case '.', then '(': a function operand, then the closing parenthesis
compileFunction(s, start, asts) ==
    LET bn  == parseBareName(s, skipSpaces(s, start + 1))
        end == skipSpaces(s, bn.end)
    IN  IF bn.err THEN CompileError
        ELSE IF end = Len(s) THEN CompileError
        ELSE IF At(s, end) # ChRParen THEN CompileError
        ELSE compileLoop(s, end + 1, Append(asts, FunctionOperand(bn.name)))

\* case '.': a function operand or a bare name
compileDot(s, i, asts) ==
    LET start == skipSpaces(s, i + 1)
    IN  IF start = Len(s) THEN CompileError
        ELSE IF At(s, start) = ChLParen
        THEN compileFunction(s, start, asts)
        ELSE LET bn == parseBareName(s, start)
             IN  IF bn.err THEN CompileError
                 ELSE compileLoop(s, skipSpaces(s, bn.end),
                                  Append(asts, NameIndexer(bn.name)))

\* the scan of compileCore from position i on
compileLoop(s, i, asts) ==
    IF i >= Len(s) THEN [kind |-> "ok", asts |-> asts]
    ELSE LET ch == At(s, i)
         IN  IF IsSpace(ch) \/ IsControl(ch)
             THEN compileLoop(s, skipSpaces(s, i + 1), asts)
             ELSE IF ch = ChLBracket THEN compileBracket(s, i, asts)
             ELSE IF ch = ChDot THEN compileDot(s, i, asts)
             ELSE CompileError

compileCore(s, root) ==
    IF Len(s) = 0 THEN CompilePanic      \* src[0] of an empty slice
    ELSE IF At(s, 0) # root THEN CompileError
    ELSE compileLoop(s, 1, <<>>)

Compile(path) == compileCore(path, ChRoot)

----------------------------------------------------------------------------
(* Decoded JSON values and ReadString's parsedJSON. *)

Nil == [kind |-> "nil", num |-> 0, str |-> <<>>, items |-> <<>>, fields |-> <<>>]
Float64(n) == [kind |-> "float64", num |-> n, str |-> <<>>, items |-> <<>>, fields |-> <<>>]
GoInt(n) == [kind |-> "int", num |-> n, str |-> <<>>, items |-> <<>>, fields |-> <<>>]
String(s) == [kind |-> "string", num |-> 0, str |-> s, items |-> <<>>, fields |-> <<>>]
Array(items) == [kind |-> "slice", num |-> 0, str |-> <<>>, items |-> items, fields |-> <<>>]
Object(fields) == [kind |-> "map", num |-> 0, str |-> <<>>, items |-> <<>>, fields |-> fields]

\* ReadString on a text that decodes to v: the type tag follows the first
\* character of the text, which for a text that decodes is v's own variant
ReadString(v) ==
    [typ |-> CASE v.kind = "nil" -> "Type_Null"
               [] v.kind = "map" -> "Type_Object"
               [] v.kind = "slice" -> "Type_Array"
               [] v.kind = "string" -> "Type_String"
               [] OTHER -> "Type_Number",
     value |-> v]

----------------------------------------------------------------------------
(* Query.  The outcome is [err, v]: err is "" for a nil error, and          *)
(* otherwise names the message of the returned error; v is nil then.       *)

FnLength == <<108, 101, 110, 103, 116, 104>>
FnFirst == <<102, 105, 114, 115, 116>>
FnLast == <<108, 97, 115, 116>>

QueryError(e) == [err |-> e, v |-> Nil]

\* the remapping of a negative index
RemapIndex(idx, length) == IF idx < 0 THEN length - idx ELSE idx

RECURSIVE queryLoop(_, _, _)
\* a faulty variant of queryObject: the function name is checked before the type
queryObjectNameFirst(asts, i, z) ==
    LET a == asts[i]
    IN  CASE a.typ = "NameIndexer" ->
                IF a.name \in DOMAIN z.fields
                THEN queryLoop(asts, i + 1, z.fields[a.name])
                ELSE QueryError("Property does not exist in the object")
          [] a.typ = "NumberIndexer" -> QueryError("Object cannot be accessed by number")
          [] a.typ = "Function" ->
                IF a.name \in {FnLength, FnFirst, FnLast}
                THEN QueryError("Object cannot be accessed by function")
                ELSE QueryError("Undefined function name")

queryObject(asts, i, z) ==
    LET a == asts[i]
    IN  CASE a.typ = "NameIndexer" ->
                IF a.name \in DOMAIN z.fields
                THEN queryLoop(asts, i + 1, z.fields[a.name])
                ELSE QueryError("Property does not exist in the object")
          [] a.typ = "NumberIndexer" -> QueryError("Object cannot be accessed by number")
          [] a.typ = "Function" -> QueryError("Object cannot be accessed by function")

\* a faulty variant of queryArrayFunction: (last) takes the element (first) takes
queryArrayFunctionLastIsFirst(asts, i, z) ==
    LET a == asts[i]
        length == Len(z.items)
    IN  CASE a.name = FnLength -> queryLoop(asts, i + 1, GoInt(length))
          [] a.name \in {FnFirst, FnLast} ->
                IF length = 0 THEN QueryError("Index out of range")
                ELSE queryLoop(asts, i + 1, z.items[1])
          [] OTHER -> QueryError("Undefined function name")

queryArrayFunction(asts, i, z) ==
    LET a == asts[i]
        length == Len(z.items)
    IN  CASE a.name = FnLength -> queryLoop(asts, i + 1, GoInt(length))
          [] a.name = FnFirst ->
                IF length = 0 THEN QueryError("Index out of range")
                ELSE queryLoop(asts, i + 1, z.items[1])
          [] a.name = FnLast ->
                IF length = 0 THEN QueryError("Index out of range")
                ELSE queryLoop(asts, i + 1, z.items[length])
          [] OTHER -> QueryError("Undefined function name")

\* a faulty variant of queryArray: the bound test is length < idx, so the
\* position one past the end is read (a run-time panic)
queryArrayOffByOne(asts, i, z) ==
    LET a == asts[i]
        length == Len(z.items)
        idx == RemapIndex(a.index, length)
    IN  CASE a.typ = "NameIndexer" -> QueryError("Array cannot be accessed by name")
          [] a.typ = "NumberIndexer" ->
                IF length < idx THEN QueryError("Index out of range")
                ELSE IF idx < 0 \/ idx >= length THEN [err |-> "panic", v |-> Nil]
                ELSE queryLoop(asts, i + 1, z.items[idx + 1])
          [] a.typ = "Function" -> queryArrayFunction(asts, i, z)

\* z[idx] with idx outside the slice is a run-time panic; the test before it
\* leaves only idx < 0 for that
queryArray(asts, i, z) ==
    LET a == asts[i]
        length == Len(z.items)
        idx == RemapIndex(a.index, length)
    IN  CASE a.typ = "NameIndexer" -> QueryError("Array cannot be accessed by name")
          [] a.typ = "NumberIndexer" ->
                IF length <= idx THEN QueryError("Index out of range")
                ELSE IF idx < 0 THEN [err |-> "panic", v |-> Nil]
                ELSE queryLoop(asts, i + 1, z.items[idx + 1])
          [] a.typ = "Function" -> queryArrayFunction(asts, i, z)

\* one turn of the loop over p.asts, with the current value v
queryLoop(asts, i, v) ==
    IF i > Len(asts) THEN [err |-> "", v |-> v]
    ELSE IF v.kind = "nil" THEN QueryError("Nil referenced")
    ELSE IF v.kind = "map" THEN queryObject(asts, i, v)
    ELSE IF v.kind = "slice" THEN queryArray(asts, i, v)
    ELSE QueryError("Unexpected data type appeared")

Query(asts, pj) ==
    IF pj.typ = "Type_Invalid" THEN QueryError("JSON is not read")
    ELSE queryLoop(asts, 1, pj.value)

QueryAsStringOrZero(asts, pj) ==
    LET r == Query(asts, pj)
    IN  IF r.err # "" THEN <<>>
        ELSE IF r.v.kind # "string" THEN <<>>
        ELSE r.v.str

\* a faulty variant of QueryAsNumberOrZero: the result's type is not checked
QueryAsNumberOrZeroUnchecked(asts, pj) ==
    LET r == Query(asts, pj)
    IN  IF r.err # "" THEN 0 ELSE r.v.num

QueryAsNumberOrZero(asts, pj) ==
    LET r == Query(asts, pj)
    IN  IF r.err # "" THEN 0
        ELSE IF r.v.kind # "float64" THEN 0
        ELSE r.v.num

----------------------------------------------------------------------------
(* The texts the model writes.  A token is [kind, text, code]: a marker    *)
(* ($ . [ ] ( )), a bare name, a number, a quoted name with its quotes, an *)
(* inserted whitespace character, or, inside a quoted name, one piece: a   *)
(* character written literally or as an escape (code is the character it   *)
(* stands for), or a raw text.                                             *)

Token(kind, text) == [kind |-> kind, text |-> text, code |-> 0]
Marker(ch) == Token("marker", <<ch>>)
RootTok == Marker(ChRoot)

RECURSIVE Flatten(_)
\* the text of a token sequence
Flatten(toks) == IF toks = <<>> THEN <<>> ELSE Head(toks).text \o Flatten(Tail(toks))

BareSeg(name) == <<Marker(ChDot), Token("name", name)>>
FunctionSeg(name) ==
    <<Marker(ChDot), Marker(ChLParen), Token("name", name), Marker(ChRParen)>>
QuotedSeg(q, name) ==
    <<Marker(ChLBracket), Token("quoted", <<q>> \o name \o <<q>>), Marker(ChRBracket)>>
NumberSeg(digits) ==
    <<Marker(ChLBracket), Token("number", digits), Marker(ChRBracket)>>
\* [-k] for a single digit k
NegIndexSeg(k) == NumberSeg(<<ChMinus, ChZero + k>>)

NameFoo == <<102, 111, 111>>
NameBar == <<98, 97, 114>>
NameQux == <<113, 117, 120>>
NameQuux == <<113, 117, 117, 120>>
NameC == <<99>>
NameSize == <<115, 105, 122, 101>>
TextAB == <<97, 98>>

\* segments begin at a '.' or a '[' marker
NSegs(toks) ==
    Cardinality({i \in 1..Len(toks) :
        toks[i].kind = "marker" /\ toks[i].text \in {<<ChDot>>, <<ChLBracket>>}})

NSpaces(toks) == Cardinality({i \in 1..Len(toks) : toks[i].kind = "space"})

\* the decoded documents: the README's data, and arrays and scalars at the root
ReadmeDoc ==
    Object((NameFoo :> Array(<<Float64(11), Float64(12), Float64(13)>>))
        @@ (NameBar :> String(TextAB))
        @@ (NameQux :> Object(NameQuux :> Nil)))
ArrayDoc == Array(<<Array(<<Float64(11), Float64(12), Float64(13)>>), String(TextAB), Nil>>)
Documents ==
    {ReadmeDoc, ArrayDoc, Array(<<>>), Array(<<Array(<<>>)>>), String(TextAB),
     Float64(7), Nil}

NotCompiled == [kind |-> "none", asts |-> <<>>]
NoCall == [op |-> "none", err |-> "", v |-> Nil]

----------------------------------------------------------------------------
(* Specification Spec: a path is written segment by segment after the root *)
(* marker, compiled, and queried against a document.                       *)

QuerySegments ==
    {BareSeg(NameFoo), BareSeg(NameBar), BareSeg(NameQux), BareSeg(NameQuux),
     BareSeg(NameC), QuotedSeg(ChSQuote, NameFoo),
     NumberSeg(<<ChZero>>), NumberSeg(<<ChZero + 2>>), NumberSeg(<<ChZero + 3>>),
     NegIndexSeg(1), NegIndexSeg(3),
     FunctionSeg(FnLength), FunctionSeg(FnFirst), FunctionSeg(FnLast),
     FunctionSeg(NameSize)}

Init ==
    /\ parts = <<RootTok>>
    /\ src = <<>>
    /\ cp = NotCompiled
    /\ pjson \in {ReadString(d) : d \in Documents}
    /\ out = NoCall

WriteSegment ==
    /\ cp.kind = "none"
    /\ NSegs(parts) < MaxSteps
    /\ \E seg \in QuerySegments : parts' = parts \o seg
    /\ UNCHANGED <<src, cp, pjson, out>>

\* path, err := Compile(text)
CompilePath ==
    /\ cp.kind = "none"
    /\ src' = Flatten(parts)
    /\ cp' = Compile(Flatten(parts))
    /\ UNCHANGED <<parts, pjson, out>>

\* a faulty variant of CallQuery: the walk keeps its current value in the
\* parsedJSON instead of in the local v
CallQueryMovesRoot ==
    /\ cp.kind = "ok"
    /\ out' = [op |-> "Query"] @@ Query(cp.asts, pjson)
    /\ pjson' = [pjson EXCEPT !.value = Query(cp.asts, pjson).v]
    /\ UNCHANGED <<parts, src, cp>>

\* v, err := path.Query(json)
CallQuery ==
    /\ cp.kind = "ok"
    /\ out' = [op |-> "Query"] @@ Query(cp.asts, pjson)
    /\ UNCHANGED <<parts, src, cp, pjson>>

\* s := path.QueryAsStringOrZero(json)
CallQueryAsStringOrZero ==
    /\ cp.kind = "ok"
    /\ out' = [op |-> "QueryAsStringOrZero", err |-> "",
               v |-> String(QueryAsStringOrZero(cp.asts, pjson))]
    /\ UNCHANGED <<parts, src, cp, pjson>>

\* n := path.QueryAsNumberOrZero(json)
CallQueryAsNumberOrZero ==
    /\ cp.kind = "ok"
    /\ out' = [op |-> "QueryAsNumberOrZero", err |-> "",
               v |-> Float64(QueryAsNumberOrZero(cp.asts, pjson))]
    /\ UNCHANGED <<parts, src, cp, pjson>>

Next ==
    \/ WriteSegment
    \/ CompilePath
    \/ CallQuery
    \/ CallQueryAsStringOrZero
    \/ CallQueryAsNumberOrZero

Spec == Init /\ [][Next]_vars

----------------------------------------------------------------------------
(* Claims about Query, checked under Spec. *)

AllButLast(s) == SubSeq(s, 1, Len(s) - 1)
Last(s) == s[Len(s)]

\* the outcome of the steps before the last one: the value the last step meets
Before == Query(AllButLast(cp.asts), pjson)

Queried == cp.kind = "ok" /\ out.op = "Query"

\* the path written ends in the segment seg, after a compilable prefix
EndsWith(seg) ==
    /\ Len(parts) > Len(seg)
    /\ SubSeq(parts, Len(parts) - Len(seg) + 1, Len(parts)) = seg

PrefixOf(seg) == SubSeq(parts, 1, Len(parts) - Len(seg))

\* C1: a path ending in the bracket indexer [-k] compiles, and on an array of
\* length n >= k reached by the steps before it Query returns the element at
\* position n-k.
C1_NegativeIndexFromEnd ==
    \A k \in 1..3 :
        (cp.kind # "none" /\ EndsWith(NegIndexSeg(k))
            /\ Compile(Flatten(PrefixOf(NegIndexSeg(k)))).kind = "ok")
        => LET z == Query(Compile(Flatten(PrefixOf(NegIndexSeg(k)))).asts, pjson)
           IN  /\ cp.kind = "ok"
               /\ (out.op = "Query" /\ z.err = "" /\ z.v.kind = "slice"
                        /\ k <= Len(z.v.items))
                  => (out.err = "" /\ out.v = z.v.items[Len(z.v.items) - k + 1])

ValueModelKinds == {"nil", "float64", "string", "slice", "map"}

\* C7: every value a successful Query returns is nil, a float64, a string, a
\* []any or a map[string]any.
C7_QueryResultInValueModel ==
    (Queried /\ out.err = "") => out.v.kind \in ValueModelKinds

\* C8: QueryAsStringOrZero returns Query's result when Query succeeds with a
\* string and "" otherwise; QueryAsNumberOrZero returns Query's result when
\* Query succeeds with a float64 and 0 otherwise.  Neither fails.
C8_AccessorsZeroOnFailure ==
    LET r == Query(cp.asts, pjson)
    IN  /\ (cp.kind = "ok" /\ out.op = "QueryAsStringOrZero")
            => /\ out.err = ""
               /\ out.v = IF r.err = "" /\ r.v.kind = "string" THEN r.v ELSE String(<<>>)
        /\ (cp.kind = "ok" /\ out.op = "QueryAsNumberOrZero")
            => /\ out.err = ""
               /\ out.v = IF r.err = "" /\ r.v.kind = "float64" THEN r.v ELSE Float64(0)

\* the accessors have run on a failing query (a missing property) and returned zero
C8_Witness ==
    /\ cp.kind = "ok"
    /\ Query(cp.asts, pjson).err = "Property does not exist in the object"
    /\ out.op = "QueryAsNumberOrZero"
    /\ out.v = Float64(0)

\* the last step is a function operand and meets an array
FunctionOnArray ==
    /\ Queried
    /\ cp.asts # <<>>
    /\ Last(cp.asts).typ = "Function"
    /\ Before.err = ""
    /\ Before.v.kind = "slice"

\* C9: on an array of length n, .(length) yields n; .(first) and .(last) yield
\* the elements at 0 and n-1 when n >= 1 and fail with index out of range when
\* n = 0; any other function name fails as an undefined function.
C9_FunctionOperandsOnArray ==
    FunctionOnArray =>
        LET name == Last(cp.asts).name
            z == Before.v.items
            n == Len(z)
        IN  /\ name = FnLength => (out.err = "" /\ out.v.num = n
                                        /\ out.v.kind \in {"int", "float64"})
            /\ (name = FnFirst /\ n >= 1) => (out.err = "" /\ out.v = z[1])
            /\ (name = FnLast /\ n >= 1) => (out.err = "" /\ out.v = z[n])
            /\ (name \in {FnFirst, FnLast} /\ n = 0) => out.err = "Index out of range"
            /\ name \notin {FnLength, FnFirst, FnLast}
                    => out.err = "Undefined function name"

\* .(last) has returned the last of three elements
C9_Witness ==
    /\ FunctionOnArray
    /\ Last(cp.asts).name = FnLast
    /\ Len(Before.v.items) = 3
    /\ out.v = Float64(13)

\* .(first) has failed on an empty array
C9_WitnessEmpty ==
    /\ FunctionOnArray
    /\ Last(cp.asts).name = FnFirst
    /\ Before.v.items = <<>>
    /\ out.err = "Index out of range"

TypeMismatch ==
    {"Object cannot be accessed by number", "Object cannot be accessed by function",
     "Array cannot be accessed by name", "Unexpected data type appeared"}

\* the last step is reached: the steps before it succeeded
LastStepReached == Queried /\ cp.asts # <<>> /\ Before.err = ""

\* C10: a step that meets a value not admitting its selector kind fails with
\* a type mismatch: a number indexer or function operand on an object, a name
\* indexer on an array, any selector on a string or number; any selector on
\* null fails (as a nil reference).  A function operand with an unrecognized
\* name fails as an undefined function on an array and on no other value.
C10_TypeDirectedDispatch ==
    LastStepReached =>
        LET a == Last(cp.asts)
            cur == Before.v.kind
        IN  /\ (cur = "map" /\ a.typ \in {"NumberIndexer", "Function"})
                    => out.err \in TypeMismatch
            /\ (cur = "slice" /\ a.typ = "NameIndexer") => out.err \in TypeMismatch
            /\ cur \in {"string", "float64", "int"} => out.err \in TypeMismatch
            /\ cur = "nil" => out.err = "Nil referenced"
            /\ (a.typ = "Function" /\ a.name \notin {FnLength, FnFirst, FnLast})
                    => /\ out.err # ""
                       /\ (out.err = "Undefined function name") <=> (cur = "slice")
                       /\ cur # "slice" => out.err \in TypeMismatch \cup {"Nil referenced"}

\* an unrecognized function name has met an object and failed as a mismatch
C10_Witness ==
    /\ LastStepReached
    /\ Last(cp.asts) = FunctionOperand(NameSize)
    /\ Before.v.kind = "map"
    /\ out.err = "Object cannot be accessed by function"

----------------------------------------------------------------------------
(* Specification SpecWs: a path is written token by token, with or without *)
(* its root marker, whitespace is inserted beside its markers, and it is   *)
(* compiled.                                                               *)

\* a space and U+3000, both unicode.IsSpace
Whitespace == {32, 12288}
Space(w) == Token("space", <<w>>)

TextASpaceB == <<97, 32, 98>>

\* '.' with no name after it, and '.(' with no name in it
EmptyBareSeg == <<Marker(ChDot)>>
EmptyFunctionSeg == <<Marker(ChDot), Marker(ChLParen), Marker(ChRParen)>>

WsSegments ==
    {BareSeg(NameFoo), NumberSeg(<<ChZero + 2>>), QuotedSeg(ChDQuote, TextASpaceB),
     FunctionSeg(FnFirst), NegIndexSeg(1),
     QuotedSeg(ChSQuote, <<>>), EmptyBareSeg, EmptyFunctionSeg}

IsMarkerAt(toks, j) == j >= 1 /\ j <= Len(toks) /\ toks[j].kind = "marker"

RECURSIVE LeftOf(_, _)
\* the nearest token at or before j that is no inserted space, or 0
LeftOf(toks, j) ==
    IF j < 1 THEN 0
    ELSE IF toks[j].kind # "space" THEN j ELSE LeftOf(toks, j - 1)

RECURSIVE RightOf(_, _)
\* the nearest token at or after j that is no inserted space, or 0
RightOf(toks, j) ==
    IF j > Len(toks) THEN 0
    ELSE IF toks[j].kind # "space" THEN j ELSE RightOf(toks, j + 1)

\* the place between tokens i and i+1 is before or after a marker, possibly
\* across spaces already inserted there
BesideMarker(toks, i) ==
    IsMarkerAt(toks, LeftOf(toks, i)) \/ IsMarkerAt(toks, RightOf(toks, i + 1))

InitWs ==
    /\ parts = <<>>
    /\ src = <<>>
    /\ cp = NotCompiled
    /\ pjson = ReadString(ReadmeDoc)
    /\ out = NoCall

WriteRoot ==
    /\ cp.kind = "none"
    /\ parts = <<>>
    /\ parts' = <<RootTok>>
    /\ UNCHANGED <<src, cp, pjson, out>>

WsWriteSegment ==
    /\ cp.kind = "none"
    /\ NSpaces(parts) = 0
    /\ NSegs(parts) < MaxSegs
    /\ \E seg \in WsSegments : parts' = parts \o seg
    /\ UNCHANGED <<src, cp, pjson, out>>

InsertSpace ==
    /\ cp.kind = "none"
    /\ NSpaces(parts) < MaxSpaces
    /\ \E i \in 0..Len(parts), w \in Whitespace :
          /\ BesideMarker(parts, i)
          /\ parts' = SubSeq(parts, 1, i) \o <<Space(w)>> \o SubSeq(parts, i + 1, Len(parts))
    /\ UNCHANGED <<src, cp, pjson, out>>

NextWs ==
    \/ WriteRoot
    \/ WsWriteSegment
    \/ InsertSpace
    \/ CompilePath

SpecWs == InitWs /\ [][NextWs]_vars

----------------------------------------------------------------------------
(* Claims about Compile, checked under SpecWs. *)

IsNoSpace(t) == t.kind # "space"

\* the path as it was before any whitespace was inserted
Base(toks) == Flatten(SelectSeq(toks, IsNoSpace))

\* the path compiled to the steps of its base, and queries alike
SameAsBase ==
    /\ cp = Compile(Base(parts))
    /\ \A d \in Documents :
          Query(cp.asts, ReadString(d)) = Query(Compile(Base(parts)).asts, ReadString(d))

\* C2, as claimed: a path that compiles still compiles, to the same steps,
\* after runs of whitespace are inserted before or after '$', '.', '[', ']',
\* '(' and ')'.
C2_WhitespaceAnywhere ==
    (cp.kind # "none" /\ Compile(Base(parts)).kind = "ok") => SameAsBase

\* C2, amended: the same, for whitespace inserted anywhere but before '$'.
C2_WhitespaceAfterRoot ==
    (cp.kind # "none" /\ Compile(Base(parts)).kind = "ok" /\ parts[1].kind # "space")
        => SameAsBase

\* a path with two inserted spaces has compiled to a step
C2_Witness ==
    /\ cp.kind = "ok"
    /\ cp.asts # <<>>
    /\ NSpaces(parts) >= 2
    /\ parts[1] = RootTok

\* C5: for a path that is empty or does not begin with '$', Compile returns
\* an error (and no CompiledJSONPath); it does not abort.
C5_NoRootIsReturnedError ==
    (cp.kind # "none" /\ (src = <<>> \/ src[1] # ChRoot)) => cp.kind = "err"

\* token i is a '.' or a '(' that no name follows, or a quoted name with
\* nothing between its quotes
EmptyNameAt(toks, i) ==
    LET j == RightOf(toks, i + 1)
    IN  \/ /\ toks[i] = Marker(ChDot)
           /\ (j = 0 \/ (toks[j].kind # "name" /\ toks[j] # Marker(ChLParen)))
        \/ /\ toks[i] = Marker(ChLParen)
           /\ (j = 0 \/ toks[j].kind # "name")
        \/ /\ toks[i].kind = "quoted"
           /\ Len(toks[i].text) = 2

\* C6: Compile fails for a path with an empty bare name, function name or
\* quoted name, and no compiled path holds a name indexer or function operand
\* whose name is empty.
C6_EmptyNameIsRejected ==
    cp.kind # "none" =>
        /\ (\E i \in 1..Len(parts) : EmptyNameAt(parts, i)) => cp.kind # "ok"
        /\ \A k \in 1..Len(cp.asts) :
              cp.asts[k].typ \in {"NameIndexer", "Function"} => cp.asts[k].name # <<>>

----------------------------------------------------------------------------
(* Specification SpecEsc: the content of one quoted name is written piece  *)
(* by piece (a literal character, an escape standing for a character, or a *)
(* raw text) and the path $[<quote><content><quote>] is compiled.          *)

Piece(kind, text, code) == [kind |-> kind, text |-> text, code |-> code]

\* the hexadecimal digit for d in 0..15
HexChar(d, upper) ==
    IF d < 10 THEN ChZero + d ELSE IF upper THEN 65 + d - 10 ELSE 97 + d - 10

RECURSIVE Hex(_, _, _)
\* c written with n hexadecimal digits, zero-padded on the left
Hex(c, n, upper) ==
    IF n = 0 THEN <<>> ELSE Append(Hex(c \div 16, n - 1, upper), HexChar(c % 16, upper))

\* the fewest hexadecimal digits that write c, for c in 0..255
MinDigits(c) == IF c < 16 THEN 1 ELSE 2

ChLowerX == 120
ChLowerU == 117

LitPiece(c) == Piece("lit", <<c>>, c)
XPiece(c, upper) == Piece("x", <<ChBackslash, ChLowerX>> \o Hex(c, 2, upper), c)
U4Piece(c) == Piece("u4", <<ChBackslash, ChLowerU>> \o Hex(c, 4, FALSE), c)
UBPiece(c, n) ==
    Piece("ub", <<ChBackslash, ChLowerU, ChLBrace>> \o Hex(c, n, FALSE) \o <<ChRBrace>>, c)

\* the characters written: a newline, a quote, 'a' (a hex digit) and U+00FF
EscCodes == {10, ChSQuote, 97, 255}
\* a quote or a backslash cannot be written literally
LitCodes == EscCodes \ {ChSQuote, ChDQuote, ChBackslash}
BraceLens == {1, 2, 3, 6}

EscPieces ==
    {LitPiece(c) : c \in LitCodes}
    \cup {XPiece(c, u) : c \in EscCodes, u \in BOOLEAN}
    \cup {U4Piece(c) : c \in EscCodes}
    \cup UNION {{UBPiece(c, n) : n \in {m \in BraceLens : m >= MinDigits(c)}} :
                    c \in EscCodes}

Raw(text) == Piece("raw", text, 0)

\* \q  \x+1  \x-1  \xg0  \u61  \u00061  \u{}  \u{1234567}  \u{61
RawPieces ==
    {Raw(<<ChBackslash, 113>>),
     Raw(<<ChBackslash, ChLowerX, ChPlus, 49>>),
     Raw(<<ChBackslash, ChLowerX, ChMinus, 49>>),
     Raw(<<ChBackslash, ChLowerX, 103, 48>>),
     Raw(<<ChBackslash, ChLowerU, 54, 49>>),
     Raw(<<ChBackslash, ChLowerU, 48, 48, 48, 54, 49>>),
     Raw(<<ChBackslash, ChLowerU, ChLBrace, ChRBrace>>),
     Raw(<<ChBackslash, ChLowerU, ChLBrace, 49, 50, 51, 52, 53, 54, 55, ChRBrace>>),
     Raw(<<ChBackslash, ChLowerU, ChLBrace, 54, 49>>)}

QuotedPath(q, body) == <<ChRoot, ChLBracket, q>> \o body \o <<q, ChRBracket>>

InitEsc ==
    /\ parts = <<>>
    /\ src = <<>>
    /\ cp = NotCompiled
    /\ pjson = ReadString(ReadmeDoc)
    /\ out = NoCall

WritePiece ==
    /\ cp.kind = "none"
    /\ Len(parts) < MaxPieces
    /\ \E p \in EscPieces : parts' = Append(parts, p)
    /\ UNCHANGED <<src, cp, pjson, out>>

WriteRaw ==
    /\ cp.kind = "none"
    /\ Len(parts) < MaxPieces
    /\ \E p \in RawPieces : parts' = Append(parts, p)
    /\ UNCHANGED <<src, cp, pjson, out>>

\* path, err := Compile(text), the name quoted with ' or with "
CompileQuoted ==
    /\ cp.kind = "none"
    /\ \E q \in {ChSQuote, ChDQuote} :
          /\ src' = QuotedPath(q, Flatten(parts))
          /\ cp' = Compile(QuotedPath(q, Flatten(parts)))
    /\ UNCHANGED <<parts, pjson, out>>

NextEsc ==
    \/ WritePiece
    \/ WriteRaw
    \/ CompileQuoted

SpecEsc == InitEsc /\ [][NextEsc]_vars

----------------------------------------------------------------------------
(* Claims about quoted names, checked under SpecEsc. *)

\* \ " ' ` and n r v t b f in either case
SimpleEscapes ==
    {ChBackslash, ChDQuote, ChSQuote, ChBacktick,
     110, 78, 114, 82, 118, 86, 116, 84, 98, 66, 102, 70}

RECURSIVE HexRun(_, _)
\* the length of the run of hexadecimal digits of s from position i
HexRun(s, i) ==
    IF i < Len(s) /\ IsHexDigit(At(s, i)) THEN 1 + HexRun(s, i + 1) ELSE 0

RECURSIVE MalformedFrom(_, _)
\* the content s holds, at or after position i, a backslash sequence that
\* does not match the escape table
MalformedFrom(s, i) ==
    IF i >= Len(s) THEN FALSE
    ELSE IF At(s, i) # ChBackslash THEN MalformedFrom(s, i + 1)
    ELSE IF i + 1 >= Len(s) THEN FALSE     \* it escapes the closing quote
    ELSE LET e == At(s, i + 1)
         IN  IF e \in SimpleEscapes THEN MalformedFrom(s, i + 2)
             ELSE IF e \in {ChLowerX, 88}
             THEN IF i + 3 < Len(s) /\ IsHexDigit(At(s, i + 2)) /\ IsHexDigit(At(s, i + 3))
                  THEN MalformedFrom(s, i + 4)
                  ELSE TRUE
             ELSE IF e \in {ChLowerU, 85}
             THEN IF i + 2 < Len(s) /\ At(s, i + 2) = ChLBrace
                  THEN LET n == HexRun(s, i + 3)
                       IN  IF n >= 1 /\ n <= 6 /\ i + 3 + n < Len(s)
                                /\ At(s, i + 3 + n) = ChRBrace
                           THEN MalformedFrom(s, i + 4 + n)
                           ELSE TRUE
                  ELSE IF HexRun(s, i + 2) = 4
                       THEN MalformedFrom(s, i + 6)
                       ELSE TRUE
             ELSE TRUE

\* C3: a quoted name holding a backslash sequence that does not match the
\* escape table makes Compile fail.
C3_MalformedEscapeFails ==
    (cp.kind # "none" /\ MalformedFrom(Flatten(parts), 0)) => cp.kind = "err"

OnlyEscapes(toks) == \A i \in 1..Len(toks) : toks[i].kind # "raw"

\* the characters the pieces stand for
Decoded(toks) == [i \in 1..Len(toks) |-> toks[i].code]

\* a \uHHHH escape is directly followed by a literal hexadecimal digit
U4BeforeHexLiteral(toks) ==
    \E i \in 1..(Len(toks) - 1) :
        /\ toks[i].kind = "u4"
        /\ toks[i + 1].kind = "lit"
        /\ IsHexDigit(toks[i + 1].code)

CompiledToName(name) == cp = [kind |-> "ok", asts |-> <<NameIndexer(name)>>]

\* C4, as claimed: a quoted name written with any mix of literal characters
\* and of the escapes \xHH, \u00HH and \u{H...H} compiles to the name
\* indexer of the characters written.
C4_AnyMixDecodes ==
    (cp.kind # "none" /\ OnlyEscapes(parts)) => CompiledToName(Decoded(parts))

\* C4, amended: the same, unless a \u00HH escape is directly followed by a
\* literal hexadecimal digit.
C4_MixDecodes ==
    (cp.kind # "none" /\ OnlyEscapes(parts) /\ ~U4BeforeHexLiteral(parts))
        => CompiledToName(Decoded(parts))

\* a name written as \xHH then \u{H...H} has compiled to its two characters
C4_Witness ==
    /\ cp.kind = "ok"
    /\ Len(parts) >= 2
    /\ parts[1].kind = "x"
    /\ parts[2].kind = "ub"
    /\ cp.asts = <<NameIndexer(<<parts[1].code, parts[2].code>>)>>

----------------------------------------------------------------------------
(* Specification SpecIdx: Query as a function of its inputs.  The steps    *)
(* are number indexers of either sign, given to the evaluator directly     *)
(* (Compile itself yields no negative index), and the documents are arrays *)
(* of every length up to MaxLen, at the root or nested.                    *)

\* elements of the arrays queried
MaxLen == 3
\* magnitude of the indexes queried
MaxIndex == 4

\* the array 11, 12, ... of n elements
Counting(n) == Array([k \in 1..n |-> Float64(10 + k)])

IndexDocs ==
    {Counting(n) : n \in 0..MaxLen} \cup {Array(<<Counting(n)>>) : n \in 0..MaxLen}

IndexPaths ==
    {<<NumberIndexer(i)>> : i \in (0 - MaxIndex)..MaxIndex}
    \cup {<<NumberIndexer(0), NumberIndexer(i)>> : i \in (0 - MaxIndex)..MaxIndex}

InitIdx ==
    /\ parts = <<>>
    /\ src = <<>>
    /\ cp \in {[kind |-> "ok", asts |-> a] : a \in IndexPaths}
    /\ pjson \in {ReadString(d) : d \in IndexDocs}
    /\ out = NoCall

NextIdx ==
    \/ CallQuery
    \/ CallQueryAsStringOrZero
    \/ CallQueryAsNumberOrZero

SpecIdx == InitIdx /\ [][NextIdx]_vars

\* the last step is a number indexer and meets an array
NumberOnArray ==
    /\ Queried
    /\ cp.asts # <<>>
    /\ Last(cp.asts).typ = "NumberIndexer"
    /\ Before.err = ""
    /\ Before.v.kind = "slice"

\* C11: on an array of length n a number indexer with index i, remapped to
\* n - i when i is negative, returns the element at that position exactly
\* when the position is in [0, n), and otherwise fails with index out of
\* range; no position outside [0, n) is read.
C11_IndexBoundsSafe ==
    NumberOnArray =>
        LET i == Last(cp.asts).index
            z == Before.v.items
            n == Len(z)
            r == IF i < 0 THEN n - i ELSE i
        IN  IF 0 <= r /\ r < n
            THEN out.err = "" /\ out.v = z[r + 1]
            ELSE out.err = "Index out of range"

\* the index n has met an array of n = 3 elements and failed
C11_Witness ==
    /\ NumberOnArray
    /\ Last(cp.asts).index = 3
    /\ Len(Before.v.items) = 3
    /\ out.err = "Index out of range"

\* the index 2 has returned the third of three elements
C11_WitnessInRange ==
    /\ NumberOnArray
    /\ Last(cp.asts).index = 2
    /\ Len(Before.v.items) = 3
    /\ out.v = Float64(13)

\* a negative index has met an array and failed
C11_WitnessNegative ==
    /\ NumberOnArray
    /\ Last(cp.asts).index = -1
    /\ Len(Before.v.items) = 3
    /\ out.err = "Index out of range"

----------------------------------------------------------------------------
(* The frame of the query calls, checked under Spec, where Query and the   *)
(* two accessors are called in any order and any number of times on one    *)
(* compiled path and one document.                                         *)

=============================================================================
